---- MODULE Spec2Model ----
(***************************************************************************)
(* The I2S character device driver (i2s_driver.c), the part of libi2s.c   *)
(* that sits on it, and the control loop of the daemon i2sd.c.             *)
(*                                                                         *)
(* Device side: sessions (open file descriptions) call read, write and     *)
(* ioctl on the one struct i2s_dev.  A handler is two steps of its caller: *)
(* it takes the mutex and runs to its unlock (nothing another session does *)
(* can fall between the two, the mutex being held), then it unlocks and    *)
(* returns.  A handler that does not get the mutex returns in one step.    *)
(*                                                                         *)
(* Daemon side: the one process of i2sd, from main to its exit, one step   *)
(* per system call or per test of the run flag, with its clients on the    *)
(* control socket and the signals it may be sent.                          *)
(***************************************************************************)
EXTENDS Integers, Sequences, FiniteSets, TLC

(* ------------------------------ bounds -------------------------------- *)

\* Number of concurrent sessions (open file descriptions) of /dev/i2s0.
NumSessions == 2

\* The buffer size i2s_driver_init allocates.  The driver uses 4096; the
\* model scales it down so that payloads below, at and above it can all be
\* enumerated byte by byte.
INIT_BUFFER_SIZE == 1

\* The longest payload a session writes, above INIT_BUFFER_SIZE so that the
\* buffer grows, and then grows again.
MaxCount == 3

\* Clients of the daemon's control socket; each connects at most once.
NumClients == 2

(* ------------------------- program constants --------------------------- *)

DEFAULT_SAMPLE_RATE == 44100
DEFAULT_BIT_DEPTH == 16

EINVAL == 22
EFAULT == 14
ENOMEM == 12
ENOTTY == 25
ERESTARTSYS == 512

\* 'i'
I2S_IOC_MAGIC == 105

\* i2sd.c
SOCKET_PATH == "/var/run/i2sd.sock"
PID_FILE == "/var/run/i2sd.pid"
I2S_DEVICE == "/dev/i2s0"

CMD_GET_STATUS == 1
CMD_SET_VOLUME == 2
CMD_GET_STATS == 3
CMD_SHUTDOWN == 4

\* sizeof(resp.message)
MESSAGE_SIZE == 256

\* A cell of kmalloc'ed memory that nothing has stored to yet: it holds
\* whatever the allocator left there.
Junk == -1

(* ------------------------------ inputs --------------------------------- *)

Sessions == 1..NumSessions

Byte == 0..1

\* The user buffers handed to write: for every length two payloads that
\* differ in every byte.
UserData(n, s) == [i \in 1..n |-> (i + s) % 2]

\* What the sessions of one run do with the device, fixed when the run
\* starts.  In a transfer run they open, start, stop, read and write data and
\* close the descriptor.  In a control run they send every command, those the
\* driver does not know among them, close through libi2s as well, and move
\* no data: their reads and writes are of zero bytes.  In a configure run
\* they set the format through libi2s i2s_configure and query it.
Workloads == {"transfer", "control", "configure"}

Payloads(w) ==
    IF w = "transfer" THEN {UserData(n, s) : n \in 0..MaxCount, s \in Byte}
    ELSE {<<>>}

ReadCounts(w) == IF w = "transfer" THEN 0..(MaxCount + 1) ELSE {0}

\* The ints callers pass to the two setters: values in use, and values no
\* audio format has.
RateValues == {-1, 48000}
DepthValues(w) == IF w = "configure" THEN {24} ELSE {0}

(* --------------------------- ioctl numbers ----------------------------- *)

\* <asm-generic/ioctl.h>: a command number packs four bit fields, nr in bits
\* 0-7, type in bits 8-15, size in bits 16-29 and direction in bits 30-31
\* (none 0, write 1, read 2).  The 32-bit word is kept as its four fields;
\* sizeof(int) is 4.
IOC(dir, type, nr, size) == [dir |-> dir % 4, size |-> size % (2^14),
                             type |-> type % (2^8), nr |-> nr % (2^8)]
IO(type, nr) == IOC(0, type, nr, 0)
IOW(type, nr) == IOC(1, type, nr, 4)
IOR(type, nr) == IOC(2, type, nr, 4)
IOC_TYPE_AsNr(cmd) == cmd.nr
IOC_TYPE(cmd) == cmd.type

I2S_SET_SAMPLE_RATE == IOW(I2S_IOC_MAGIC, 1)
I2S_GET_SAMPLE_RATE == IOR(I2S_IOC_MAGIC, 2)
I2S_SET_BIT_DEPTH == IOW(I2S_IOC_MAGIC, 3)
I2S_GET_BIT_DEPTH == IOR(I2S_IOC_MAGIC, 4)
I2S_START == IO(I2S_IOC_MAGIC, 5)
I2S_STOP == IO(I2S_IOC_MAGIC, 6)
I2S_GET_STATUS == IOR(I2S_IOC_MAGIC, 7)

DefinedCmds == {I2S_SET_SAMPLE_RATE, I2S_GET_SAMPLE_RATE, I2S_SET_BIT_DEPTH,
                I2S_GET_BIT_DEPTH, I2S_START, I2S_STOP, I2S_GET_STATUS}

\* Commands no case of the switch names: an unused number under the driver's
\* magic, a used number with another direction and size, and a used number
\* under a foreign magic.
UnknownCmds == {IO(I2S_IOC_MAGIC, 8), IOR(I2S_IOC_MAGIC, 5), IO(I2S_IOC_MAGIC + 1, 5)}

Cmds(w) ==
    IF w = "transfer" THEN {I2S_START, I2S_STOP}
    ELSE IF w = "configure" THEN {I2S_GET_SAMPLE_RATE, I2S_GET_BIT_DEPTH}
    ELSE DefinedCmds \cup UnknownCmds

(* ------------------------------- state --------------------------------- *)

VARIABLES
    \* struct i2s_dev
    sample_rate, bit_depth, is_running,
    buffer,        \* the cells of the allocation dev->buffer points to
    buffer_ptr,    \* "alloc" or "NULL"
    buffer_size,
    lock,          \* 0 when free, else the session that holds the mutex
    \* per session
    filp,          \* "closed" or "open"
    pc,            \* "idle"; "out": at the unlock, mutex held; "ret": returning
                   \* without having held it; "oops": died holding it; "lib":
                   \* in libi2s between two system calls
    call,          \* the system call that holds the mutex
    ret,           \* the return value
    uout,          \* what the handler copied to the caller
    closing,       \* inside libi2s i2s_close
    configuring,   \* inside libi2s i2s_configure: where, and its config
    \* history
    lastWrite,     \* the most recent successfully written payload
    maxWritten,    \* length of the longest payload successfully written
    maxGrown,      \* length of the longest payload the buffer was allocated for
    lastRun,       \* "none", "start", "stop": the last of the two to execute
    lastSet,       \* the last SET_SAMPLE_RATE to execute: its value, its session
    prevSet,       \* the one before it
    \* environment
    workload,      \* what this run's sessions do, see Workloads
    \* i2sd
    dpc,           \* where the daemon process is
    running,       \* static volatile int running
    i2s_fd, socket_fd,
    client_fd,     \* event_loop's client_fd
    msg,           \* handle_client's msg, once read
    resp,          \* handle_client's resp, once made
    handlers,      \* signal_handler is installed for SIGTERM and SIGINT
    fdopen,        \* the descriptors open in the process
    nclose,        \* per descriptor, the close() calls the program made on it
    files,         \* which of SOCKET_PATH and PID_FILE exist
    backlog,       \* connections waiting on the listening socket, oldest first
    cl             \* per client: its side of its connection

dev == <<sample_rate, bit_depth, is_running, buffer, buffer_ptr, buffer_size>>
sess == <<filp, pc, call, ret, uout, closing>>
hist == <<lastWrite, maxWritten, maxGrown, lastRun, lastSet, prevSet>>
dmn == <<dpc, running, i2s_fd, socket_fd, client_fd, msg, resp, handlers,
         fdopen, nclose, files, backlog, cl>>
drv == <<dev, lock, sess, hist, workload, configuring>>
other == <<workload, dmn>>
vars == <<dev, lock, sess, hist, other, configuring>>

NoCmd == IOC(0, 0, 0, 0)
NoCall == [fn |-> "none", cmd |-> NoCmd, count |-> 0, data |-> <<>>, arg |-> 0]

\* lastWrite: fresh while no critical section but a read's has run since the
\* write; grew when that write had to allocate.
NoWrite == [data |-> <<>>, fresh |-> FALSE, grew |-> FALSE]
Stale(w) == [w EXCEPT !.fresh = FALSE, !.grew = FALSE]

\* configuring: at is "no", or "rate" or "depth" while the ioctl that sets it
\* is under way, or "between" the two; config is the caller's i2s_config_t.
NoConfigure == [at |-> "no", config |-> [sample_rate |-> 0, bit_depth |-> 0]]

\* No SET_SAMPLE_RATE yet: the rate is the one i2s_driver_init stored.
NoSet == [value |-> DEFAULT_SAMPLE_RATE, by |-> 0]

Max(a, b) == IF a >= b THEN a ELSE b
Min(a, b) == IF a <= b THEN a ELSE b

(* --------------------------- i2s_driver_init --------------------------- *)

\* The device left running by its initialisation.
i2s_driver_init_Running ==
    /\ sample_rate = DEFAULT_SAMPLE_RATE
    /\ bit_depth = DEFAULT_BIT_DEPTH
    /\ is_running = 1
    /\ buffer_size = INIT_BUFFER_SIZE
    /\ buffer = [i \in 1..INIT_BUFFER_SIZE |-> Junk]
    /\ buffer_ptr = "alloc"
    /\ lock = 0

\* What i2s_driver_init has stored when it returns 0.
i2s_driver_init ==
    /\ sample_rate = DEFAULT_SAMPLE_RATE
    /\ bit_depth = DEFAULT_BIT_DEPTH
    /\ is_running = 0
    /\ buffer_size = INIT_BUFFER_SIZE
    /\ buffer = [i \in 1..INIT_BUFFER_SIZE |-> Junk]
    /\ buffer_ptr = "alloc"
    /\ lock = 0

DriverInit ==
    /\ i2s_driver_init
    /\ filp = [p \in Sessions |-> "closed"]
    /\ pc = [p \in Sessions |-> "idle"]
    /\ call = [p \in Sessions |-> NoCall]
    /\ ret = [p \in Sessions |-> 0]
    /\ uout = [p \in Sessions |-> <<>>]
    /\ closing = [p \in Sessions |-> FALSE]
    /\ configuring = [p \in Sessions |-> NoConfigure]
    /\ lastWrite = NoWrite
    /\ maxWritten = 0
    /\ maxGrown = 0
    /\ lastRun = "none"
    /\ lastSet = NoSet
    /\ prevSet = NoSet

(* ------------------------ open and release ----------------------------- *)

\* i2s_open: points the file at the one device and logs.
i2s_open(p) ==
    /\ filp[p] = "closed"
    /\ filp' = [filp EXCEPT ![p] = "open"]
    /\ UNCHANGED <<dev, lock, pc, call, ret, uout, closing, hist, other, configuring>>

\* A release that stops the device.
i2s_release_Stops(p) ==
    /\ filp[p] = "open"
    /\ pc[p] = "idle"
    /\ filp' = [filp EXCEPT ![p] = "closed"]
    /\ closing' = [closing EXCEPT ![p] = FALSE]
    /\ is_running' = 0
    /\ UNCHANGED <<sample_rate, bit_depth, buffer, buffer_ptr, buffer_size,
                   lock, pc, call, ret, uout, hist, other, configuring>>

\* i2s_release: logs.  Reached by close(fd), either directly (the daemon's
\* cleanup, any holder of the raw descriptor) or as the second half of
\* libi2s i2s_close.
i2s_release(p) ==
    /\ filp[p] = "open"
    /\ pc[p] = "idle"
    /\ filp' = [filp EXCEPT ![p] = "closed"]
    /\ closing' = [closing EXCEPT ![p] = FALSE]
    /\ UNCHANGED <<dev, lock, pc, call, ret, uout, hist, other, configuring>>

(* -------------------- mutex_lock_interruptible ------------------------- *)

CanCall(p) == filp[p] = "open" /\ pc[p] = "idle" /\ ~closing[p]

\* The mutex taken whether it is free or not.
Locked_Unguarded(p) == lock' = p

\* The mutex is free: the caller takes it.
Locked(p) ==
    /\ lock = 0
    /\ lock' = p

\* The mutex is held, the caller sleeps, and a signal ends the sleep: the
\* handler returns -ERESTARTSYS.
Interrupted(p) ==
    /\ lock # 0
    /\ pc' = [pc EXCEPT ![p] = "ret"]
    /\ ret' = [ret EXCEPT ![p] = -ERESTARTSYS]
    /\ UNCHANGED <<dev, lock, call, uout, hist>>

(* ------------------------------ i2s_read ------------------------------- *)

\* The check of the run state left out.
NotRunning_Unchecked == FALSE

\* if (!dev->is_running), in i2s_read and in i2s_write.
NotRunning == is_running = 0

\* From the lock to the label out.  copy_to_user from a NULL dev->buffer is a
\* kernel fault: the task dies inside the critical section.
ReadBody(p, count, fault) ==
    LET n == Min(count, buffer_size) IN
    /\ call' = [call EXCEPT ![p] = [NoCall EXCEPT !.fn = "read", !.count = count]]
    /\ IF NotRunning
       THEN /\ ret' = [ret EXCEPT ![p] = -EINVAL]
            /\ pc' = [pc EXCEPT ![p] = "out"]
            /\ UNCHANGED uout
       ELSE IF n > 0 /\ buffer_ptr = "NULL"
       THEN /\ pc' = [pc EXCEPT ![p] = "oops"]
            /\ UNCHANGED <<ret, uout>>
       ELSE IF n > 0 /\ fault
       THEN /\ ret' = [ret EXCEPT ![p] = -EFAULT]
            /\ pc' = [pc EXCEPT ![p] = "out"]
            /\ UNCHANGED uout
       ELSE /\ ret' = [ret EXCEPT ![p] = n]
            /\ uout' = [uout EXCEPT ![p] = SubSeq(buffer, 1, n)]
            /\ pc' = [pc EXCEPT ![p] = "out"]
    /\ UNCHANGED <<dev, hist>>

\* The critical section of a read.
ReadCS(p) ==
    /\ Locked(p)
    /\ \E count \in ReadCounts(workload), fault \in BOOLEAN : ReadBody(p, count, fault)

i2s_read(p) ==
    /\ CanCall(p)
    /\ ReadCS(p) \/ Interrupted(p)
    /\ UNCHANGED <<filp, closing, other, configuring>>

(* ------------------------------ i2s_write ------------------------------ *)

\* The payload stored one cell further on.
CopyIn_Shifted(to, from) ==
    [i \in 1..Len(to) |-> IF 1 < i /\ i <= Len(from) THEN from[i - 1] ELSE to[i]]

\* copy_from_user(to, from, n) that succeeds.
CopyIn(to, from) == [i \in 1..Len(to) |-> IF i <= Len(from) THEN from[i] ELSE to[i]]

\* copy_from_user that faults after k bytes: the first k are copied and the
\* kernel pads the destination to the requested size with zero bytes.
CopyInFault(to, from, k) ==
    [i \in 1..Len(to) |->
        IF i <= k THEN from[i]
        ELSE IF i <= Len(from) THEN 0
        ELSE to[i]]

\* The buffer taken to be large enough for any payload.
NeedsGrow_Never(count) == FALSE

\* "Ensure buffer is large enough": if (count > dev->buffer_size).
NeedsGrow(count) == count > buffer_size
GrownBuffer(count) == [i \in 1..count |-> Junk]

\* buffer_size set to the payload's length by every write.
WriteStore_Resize(count, grow, cells) ==
    /\ buffer' = cells
    /\ buffer_ptr' = IF grow THEN "alloc" ELSE buffer_ptr
    /\ buffer_size' = count
    /\ maxGrown' = IF grow THEN Max(maxGrown, count) ELSE maxGrown

\* The stores of a write that got a buffer to copy to.
WriteStore(count, grow, cells) ==
    /\ buffer' = cells
    /\ buffer_ptr' = IF grow THEN "alloc" ELSE buffer_ptr
    /\ buffer_size' = IF grow THEN count ELSE buffer_size
    /\ maxGrown' = IF grow THEN Max(maxGrown, count) ELSE maxGrown

\* From the lock to the label out.  allocok: kmalloc returns memory; k: the
\* number of bytes copy_from_user copies before it faults, -1 when it does not.
WriteBody(p, data, allocok, k) ==
    LET count == Len(data)
        grow == NeedsGrow(count)
        target == IF grow THEN GrownBuffer(count) ELSE buffer
    IN
    /\ call' = [call EXCEPT ![p] = [NoCall EXCEPT !.fn = "write", !.count = count,
                                                   !.data = data]]
    /\ UNCHANGED <<sample_rate, bit_depth, is_running, uout, lastRun, lastSet, prevSet>>
    /\ IF NotRunning
       THEN /\ ret' = [ret EXCEPT ![p] = -EINVAL]
            /\ pc' = [pc EXCEPT ![p] = "out"]
            /\ lastWrite' = Stale(lastWrite)
            /\ UNCHANGED <<buffer, buffer_ptr, buffer_size, maxWritten, maxGrown>>
       ELSE IF grow /\ ~allocok
       THEN \* kfree(dev->buffer), and kmalloc returns NULL
            /\ buffer' = <<>>
            /\ buffer_ptr' = "NULL"
            /\ ret' = [ret EXCEPT ![p] = -ENOMEM]
            /\ pc' = [pc EXCEPT ![p] = "out"]
            /\ lastWrite' = Stale(lastWrite)
            /\ UNCHANGED <<buffer_size, maxWritten, maxGrown>>
       ELSE IF ~grow /\ count > 0 /\ buffer_ptr = "NULL"
       THEN \* copy_from_user to NULL
            /\ pc' = [pc EXCEPT ![p] = "oops"]
            /\ UNCHANGED <<ret, buffer, buffer_ptr, buffer_size, lastWrite,
                           maxWritten, maxGrown>>
       ELSE IF k >= 0
       THEN /\ WriteStore(count, grow, CopyInFault(target, data, k))
            /\ ret' = [ret EXCEPT ![p] = -EFAULT]
            /\ pc' = [pc EXCEPT ![p] = "out"]
            /\ lastWrite' = Stale(lastWrite)
            /\ UNCHANGED maxWritten
       ELSE /\ WriteStore(count, grow, CopyIn(target, data))
            /\ ret' = [ret EXCEPT ![p] = count]
            /\ pc' = [pc EXCEPT ![p] = "out"]
            /\ lastWrite' = [data |-> data, fresh |-> TRUE, grew |-> grow]
            /\ maxWritten' = Max(maxWritten, count)

\* The critical section of a write.
WriteCS(p) ==
    /\ Locked(p)
    /\ \E data \in Payloads(workload), allocok \in BOOLEAN :
         \E k \in -1..(Len(data) - 1) : WriteBody(p, data, allocok, k)

i2s_write(p) ==
    /\ CanCall(p)
    /\ WriteCS(p) \/ Interrupted(p)
    /\ UNCHANGED <<filp, closing, other, configuring>>

(* ------------------------------ i2s_ioctl ------------------------------ *)

\* A store that leaves the low byte of the old value in place.
IoctlSet_Torn(cmd, value) ==
    /\ sample_rate' = IF cmd = I2S_SET_SAMPLE_RATE
                      THEN ((value \div 256) * 256) + (sample_rate % 256)
                      ELSE sample_rate
    /\ bit_depth' = IF cmd = I2S_SET_BIT_DEPTH THEN value ELSE bit_depth
    /\ UNCHANGED is_running

\* A setter that stores positive values only.
IoctlSet_Validated(cmd, value) ==
    /\ sample_rate' = IF cmd = I2S_SET_SAMPLE_RATE /\ value > 0 THEN value ELSE sample_rate
    /\ bit_depth' = IF cmd = I2S_SET_BIT_DEPTH /\ value > 0 THEN value ELSE bit_depth
    /\ UNCHANGED is_running

\* case I2S_SET_SAMPLE_RATE, case I2S_SET_BIT_DEPTH: value is what
\* copy_from_user read at arg.
IoctlSet(cmd, value) ==
    /\ sample_rate' = IF cmd = I2S_SET_SAMPLE_RATE THEN value ELSE sample_rate
    /\ bit_depth' = IF cmd = I2S_SET_BIT_DEPTH THEN value ELSE bit_depth
    /\ UNCHANGED is_running

\* Each session given the values of a device of its own, never set.
IoctlGet_Defaults(cmd) ==
    IF cmd = I2S_GET_SAMPLE_RATE THEN DEFAULT_SAMPLE_RATE
    ELSE IF cmd = I2S_GET_BIT_DEPTH THEN DEFAULT_BIT_DEPTH
    ELSE 0

\* case I2S_GET_SAMPLE_RATE, case I2S_GET_BIT_DEPTH, case I2S_GET_STATUS: the
\* int copy_to_user stores at arg.
IoctlGet(cmd) ==
    IF cmd = I2S_GET_SAMPLE_RATE THEN sample_rate
    ELSE IF cmd = I2S_GET_BIT_DEPTH THEN bit_depth
    ELSE is_running

\* Start and stop as one toggle.
StoreRunning_Toggle(cmd) ==
    /\ is_running' = 1 - is_running
    /\ UNCHANGED <<sample_rate, bit_depth>>

\* case I2S_START, case I2S_STOP.
StoreRunning(cmd) ==
    /\ is_running' = IF cmd = I2S_START THEN 1 ELSE 0
    /\ UNCHANGED <<sample_rate, bit_depth>>

\* The switch, from the lock to the unlock.  fault: the copy to or from arg
\* faults.
IoctlBody(p, cmd, value, fault) ==
    /\ call' = [call EXCEPT ![p] = [NoCall EXCEPT !.fn = "ioctl", !.cmd = cmd,
                                                   !.arg = value]]
    /\ pc' = [pc EXCEPT ![p] = "out"]
    /\ UNCHANGED <<buffer, buffer_ptr, buffer_size>>
    /\ CASE cmd \in {I2S_SET_SAMPLE_RATE, I2S_SET_BIT_DEPTH} ->
              IF fault
              THEN /\ ret' = [ret EXCEPT ![p] = -EFAULT]
                   /\ UNCHANGED <<sample_rate, bit_depth, is_running, uout>>
              ELSE /\ IoctlSet(cmd, value)
                   /\ ret' = [ret EXCEPT ![p] = 0]
                   /\ UNCHANGED uout
         [] cmd \in {I2S_GET_SAMPLE_RATE, I2S_GET_BIT_DEPTH, I2S_GET_STATUS} ->
              /\ IF fault
                 THEN ret' = [ret EXCEPT ![p] = -EFAULT] /\ UNCHANGED uout
                 ELSE /\ ret' = [ret EXCEPT ![p] = 0]
                      /\ uout' = [uout EXCEPT ![p] = <<IoctlGet(cmd)>>]
              /\ UNCHANGED <<sample_rate, bit_depth, is_running>>
         [] cmd \in {I2S_START, I2S_STOP} ->
              /\ StoreRunning(cmd)
              /\ ret' = [ret EXCEPT ![p] = 0]
              /\ UNCHANGED uout
         [] OTHER ->
              /\ ret' = [ret EXCEPT ![p] = -ENOTTY]
              /\ UNCHANGED <<sample_rate, bit_depth, is_running, uout>>
    \* history
    /\ lastWrite' = Stale(lastWrite)
    /\ UNCHANGED <<maxWritten, maxGrown>>
    /\ lastRun' = IF cmd = I2S_START THEN "start"
                  ELSE IF cmd = I2S_STOP THEN "stop" ELSE lastRun
    /\ IF cmd = I2S_SET_SAMPLE_RATE /\ ~fault
       THEN lastSet' = [value |-> value, by |-> p] /\ prevSet' = lastSet
       ELSE UNCHANGED <<lastSet, prevSet>>

\* The values a caller passes at arg: for the two setters the int to store,
\* for every other command nothing the driver reads.
ArgValues(cmd) ==
    IF cmd = I2S_SET_SAMPLE_RATE THEN RateValues
    ELSE IF cmd = I2S_SET_BIT_DEPTH THEN DepthValues(workload)
    ELSE {0}

\* Whether the command copies to or from arg at all.
UsesArg(cmd) == cmd.dir # 0 /\ cmd \in DefinedCmds

\* The critical section of an ioctl.
IoctlCS(p, cmd) ==
    /\ Locked(p)
    /\ \E value \in ArgValues(cmd), fault \in {FALSE, UsesArg(cmd)} :
         IoctlBody(p, cmd, value, fault)

\* if (_IOC_TYPE(cmd) != I2S_IOC_MAGIC) return -ENOTTY;
WrongMagic(p) ==
    /\ pc' = [pc EXCEPT ![p] = "ret"]
    /\ ret' = [ret EXCEPT ![p] = -ENOTTY]
    /\ UNCHANGED <<dev, lock, call, uout, hist>>

\* i2s_ioctl(filp, cmd, arg) up to its unlock or its return without the lock.
Ioctl(p, cmd) ==
    IF IOC_TYPE(cmd) # I2S_IOC_MAGIC
    THEN WrongMagic(p)
    ELSE IoctlCS(p, cmd) \/ Interrupted(p)

i2s_ioctl(p) ==
    /\ CanCall(p)
    /\ \E cmd \in Cmds(workload) : Ioctl(p, cmd)
    /\ UNCHANGED <<filp, closing, other, configuring>>

(* ------------------------- unlock and return --------------------------- *)

\* i2s_configure going on to the bit depth whatever the first ioctl returned.
ConfigureNext_GoesOn(c, r) ==
    IF c.at = "rate" THEN [c EXCEPT !.at = "between"] ELSE NoConfigure

\* libi2s i2s_configure after an ioctl of its two has returned r: if (ioctl(...)
\* < 0) return -1; after the first, the second; after the second, return 0.
ConfigureNext(c, r) ==
    IF c.at = "rate" /\ r >= 0 THEN [c EXCEPT !.at = "between"] ELSE NoConfigure

\* The system call of session p returns r to its caller, which is libi2s
\* i2s_configure or the application.
ReturnTo(p, r) ==
    /\ configuring' = [configuring EXCEPT ![p] = ConfigureNext(@, r)]
    /\ pc' = [pc EXCEPT ![p] = IF ConfigureNext(configuring[p], r).at = "between"
                                THEN "lib" ELSE "idle"]

\* out: mutex_unlock(&dev->lock); return ret;
mutex_unlock(p) ==
    /\ pc[p] = "out"
    /\ lock = p
    /\ lock' = 0
    /\ ReturnTo(p, ret[p])
    /\ call' = [call EXCEPT ![p] = NoCall]
    /\ ret' = [ret EXCEPT ![p] = 0]
    /\ uout' = [uout EXCEPT ![p] = <<>>]
    /\ UNCHANGED <<dev, filp, closing, hist, other>>

\* return -ERESTARTSYS; return -ENOTTY; with the mutex never taken.
Return(p) ==
    /\ pc[p] = "ret"
    /\ ReturnTo(p, ret[p])
    /\ ret' = [ret EXCEPT ![p] = 0]
    /\ UNCHANGED <<dev, lock, filp, call, uout, closing, hist, other>>

(* ------------------------------- libi2s -------------------------------- *)

\* i2s_close(handle): i2s_stop(handle), whose result it drops, then
\* close(handle->fd), which is i2s_release above.
i2s_close(p) ==
    /\ workload = "control"
    /\ CanCall(p)
    /\ closing' = [closing EXCEPT ![p] = TRUE]
    /\ Ioctl(p, I2S_STOP)
    /\ UNCHANGED <<filp, other, configuring>>

\* The i2s_config_t values callers pass to i2s_configure.
Configs == {[sample_rate |-> r, bit_depth |-> d] : r \in RateValues, d \in DepthValues("configure")}

\* The ioctl of i2s_configure that passes &config->sample_rate or
\* &config->bit_depth: the value at arg is the field's.
ConfigureIoctl(p, cmd, value) ==
    /\ Ioctl(p, cmd)
    /\ pc'[p] = "out" => call'[p].arg = value

\* i2s_configure(handle, config), up to its first ioctl.
i2s_configure(p) ==
    /\ workload = "configure"
    /\ CanCall(p)
    /\ \E config \in Configs :
         /\ configuring' = [configuring EXCEPT ![p] = [at |-> "rate", config |-> config]]
         /\ ConfigureIoctl(p, I2S_SET_SAMPLE_RATE, config.sample_rate)
    /\ UNCHANGED <<filp, closing, other>>

\* i2s_configure, its second ioctl.
i2s_configure_depth(p) ==
    /\ pc[p] = "lib"
    /\ configuring[p].at = "between"
    /\ configuring' = [configuring EXCEPT ![p].at = "depth"]
    /\ ConfigureIoctl(p, I2S_SET_BIT_DEPTH, configuring[p].config.bit_depth)
    /\ UNCHANGED <<filp, closing, other>>

\* i2s_get_status(handle): what the library makes of the ioctl's result and
\* of the int it stored.
i2s_get_status(r, status) ==
    IF r < 0 THEN "I2S_STATUS_ERROR"
    ELSE IF status # 0 THEN "I2S_STATUS_RUNNING" ELSE "I2S_STATUS_STOPPED"

(* -------------------------------- i2sd --------------------------------- *)

Clients == 1..NumClients

\* The descriptors the process gets: open() of the device, socket(), and one
\* per accepted connection.
DevFd == 3
SockFd == 4
ClientFd(c) == SockFd + c
AllFds == {DevFd, SockFd} \cup {ClientFd(c) : c \in Clients}

\* daemon_msg_t as far as handle_client reads it.  The requests the clients
\* send: every command from below the first to above the last, and SET_VOLUME
\* with a negative and a positive volume.  What a request holds is drawn when
\* the daemon reads it, nothing looking at it before.
MsgCmds == -1..(CMD_SHUTDOWN + 1)
Msgs == {[cmd |-> c, param |-> 0] : c \in MsgCmds}
          \cup {[cmd |-> CMD_SET_VOLUME, param |-> v] : v \in {-75, 100}}
NoMsg == [cmd |-> 0, param |-> 0]

\* memset(&resp, 0, sizeof(resp))
NoResp == [status |-> 0, message |-> ""]

\* What time(NULL) may return.
Clock == {1, 86400}

\* A client's connection: st is "new", "queued" on the listening socket,
\* "accepted", or "closed" by the daemon; sent is how much of a request the
\* client has sent, "none", "short" of one, "full", or "more" than one; peer
\* holds while the client keeps its end open; wrote is what the daemon has
\* handed to write() on the connection.  Once the daemon has closed it the
\* connection is gone and nothing of it is kept.
NoClient == [st |-> "new", sent |-> "none", peer |-> TRUE, wrote |-> <<>>]
Gone == [st |-> "closed", sent |-> "none", peer |-> FALSE, wrote |-> <<>>]

DaemonInit ==
    /\ dpc = "main"
    /\ running = 1
    /\ i2s_fd = -1
    /\ socket_fd = -1
    /\ client_fd = -1
    /\ msg = NoMsg
    /\ resp = NoResp
    /\ handlers = FALSE
    /\ fdopen = {}
    /\ nclose = [f \in AllFds |-> 0]
    /\ files = {}
    /\ backlog = <<>>
    /\ cl = [c \in Clients |-> NoClient]

\* close() called on each descriptor of the set fds.
CloseAll(fds) ==
    /\ fdopen' = fdopen \ fds
    /\ nclose' = [f \in AllFds |-> IF f \in fds THEN nclose[f] + 1 ELSE nclose[f]]

\* daemonize(): fork, setsid or chdir may fail, and main returns EXIT_FAILURE.
daemonize ==
    /\ dpc = "main"
    /\ \E ok \in BOOLEAN : dpc' = IF ok THEN "write_pid_file" ELSE "exited"
    /\ UNCHANGED <<running, i2s_fd, socket_fd, client_fd, msg, resp, handlers,
                   fdopen, nclose, files, backlog, cl, drv>>

\* write_pid_file(): when fopen fails main returns EXIT_FAILURE.
write_pid_file ==
    /\ dpc = "write_pid_file"
    /\ \E ok \in BOOLEAN :
         IF ok THEN dpc' = "signal" /\ files' = files \cup {PID_FILE}
         ELSE dpc' = "exited" /\ UNCHANGED files
    /\ UNCHANGED <<running, i2s_fd, socket_fd, client_fd, msg, resp, handlers,
                   fdopen, nclose, backlog, cl, drv>>

\* signal(SIGTERM, signal_handler); signal(SIGINT, signal_handler);
InstallHandlers ==
    /\ dpc = "signal"
    /\ handlers' = TRUE
    /\ dpc' = "init_i2s_device"
    /\ UNCHANGED <<running, i2s_fd, socket_fd, client_fd, msg, resp,
                   fdopen, nclose, files, backlog, cl, drv>>

\* init_i2s_device(): when open fails main runs cleanup.
init_i2s_device ==
    /\ dpc = "init_i2s_device"
    /\ \E ok \in BOOLEAN :
         IF ok
         THEN i2s_fd' = DevFd /\ fdopen' = fdopen \cup {DevFd} /\ dpc' = "create_socket"
         ELSE i2s_fd' = -1 /\ UNCHANGED fdopen /\ dpc' = "cleanup"
    /\ UNCHANGED <<running, socket_fd, client_fd, msg, resp, handlers,
                   nclose, files, backlog, cl, drv>>

\* create_socket(): unlink, then socket, bind and listen, any of which may
\* fail; after a failed bind or listen the socket is closed and socket_fd
\* keeps its number.  When it fails main runs cleanup.
create_socket ==
    /\ dpc = "create_socket"
    /\ \E fails \in {"socket", "bind", "listen", "none"} :
         CASE fails = "socket" ->
                /\ socket_fd' = -1
                /\ files' = files \ {SOCKET_PATH}
                /\ dpc' = "cleanup"
                /\ UNCHANGED <<fdopen, nclose>>
           [] fails = "bind" ->
                /\ socket_fd' = SockFd
                /\ files' = files \ {SOCKET_PATH}
                /\ CloseAll({SockFd})
                /\ dpc' = "cleanup"
           [] fails = "listen" ->
                /\ socket_fd' = SockFd
                /\ files' = files \cup {SOCKET_PATH}
                /\ CloseAll({SockFd})
                /\ dpc' = "cleanup"
           [] OTHER ->
                /\ socket_fd' = SockFd
                /\ files' = files \cup {SOCKET_PATH}
                /\ fdopen' = fdopen \cup {SockFd}
                /\ dpc' = "loop"
                /\ UNCHANGED nclose
    /\ UNCHANGED <<running, i2s_fd, client_fd, msg, resp, handlers, backlog, cl, drv>>

\* The loop entered again whatever the run flag is.
LoopTest_Forever ==
    /\ dpc = "loop"
    /\ dpc' = "select"
    /\ UNCHANGED <<running, i2s_fd, socket_fd, client_fd, msg, resp, handlers,
                   fdopen, nclose, files, backlog, cl, drv>>

\* while (running)
LoopTest ==
    /\ dpc = "loop"
    /\ dpc' = IF running # 0 THEN "select" ELSE "cleanup"
    /\ UNCHANGED <<running, i2s_fd, socket_fd, client_fd, msg, resp, handlers,
                   fdopen, nclose, files, backlog, cl, drv>>

\* select() with its one second timeout: a connection is waiting; or the
\* second passes with none, continue; or select fails with an error other
\* than EINTR, break.  (EINTR is signal_handler below.)
Select ==
    /\ dpc = "select"
    /\ \/ backlog # <<>> /\ dpc' = "accept"
       \/ backlog = <<>> /\ dpc' = "loop"
       \/ dpc' = "cleanup"
    /\ UNCHANGED <<running, i2s_fd, socket_fd, client_fd, msg, resp, handlers,
                   fdopen, nclose, files, backlog, cl, drv>>

\* A failed accept taken as the end of the loop.
Accept_FailBreaks ==
    /\ dpc = "accept"
    /\ backlog # <<>>
    /\ \E ok \in BOOLEAN :
         IF ok
         THEN LET c == Head(backlog) IN
              /\ client_fd' = ClientFd(c)
              /\ backlog' = Tail(backlog)
              /\ fdopen' = fdopen \cup {ClientFd(c)}
              /\ cl' = [cl EXCEPT ![c].st = "accepted"]
              /\ dpc' = "handle_client"
         ELSE /\ client_fd' = -1
              /\ dpc' = "cleanup"
              /\ UNCHANGED <<backlog, fdopen, cl>>
    /\ UNCHANGED <<running, i2s_fd, socket_fd, msg, resp, handlers, nclose, files, drv>>

\* accept(): the oldest waiting connection, or a failure that leaves it
\* waiting (client_fd < 0, and the loop goes round).
Accept ==
    /\ dpc = "accept"
    /\ backlog # <<>>
    /\ \E ok \in BOOLEAN :
         IF ok
         THEN LET c == Head(backlog) IN
              /\ client_fd' = ClientFd(c)
              /\ backlog' = Tail(backlog)
              /\ fdopen' = fdopen \cup {ClientFd(c)}
              /\ cl' = [cl EXCEPT ![c].st = "accepted"]
              /\ dpc' = "handle_client"
         ELSE /\ client_fd' = -1
              /\ dpc' = "loop"
              /\ UNCHANGED <<backlog, fdopen, cl>>
    /\ UNCHANGED <<running, i2s_fd, socket_fd, msg, resp, handlers, nclose, files, drv>>

\* The client whose connection client_fd is.
Client == client_fd - SockFd

\* Any data at all taken for a request.
WholeRequest_AnyData(c) == cl[c].sent # "none"

\* n == sizeof(msg): the read returns a whole request.
WholeRequest(c) == cl[c].sent \in {"full", "more"}

\* n = read(client_fd, &msg, sizeof(msg)): blocks until the client has sent
\* something or closed its end, and stores what has arrived in msg, a part of
\* a request when no more than that has.  n != sizeof(msg): close and return.
Read ==
    /\ dpc = "handle_client"
    /\ LET c == Client IN
       \/ /\ WholeRequest(c)
          /\ msg' \in Msgs
          /\ dpc' = "dispatch"
          /\ UNCHANGED <<client_fd, fdopen, nclose, cl>>
       \/ /\ ~WholeRequest(c)
          /\ \/ cl[c].sent = "short" /\ msg' \in Msgs
             \/ cl[c].sent = "none" /\ ~cl[c].peer /\ UNCHANGED msg
          /\ CloseAll({client_fd})
          /\ cl' = [cl EXCEPT ![c] = Gone]
          /\ client_fd' = -1
          /\ dpc' = "loop"
    /\ UNCHANGED <<running, i2s_fd, socket_fd, resp, handlers, files, backlog, drv>>

\* snprintf(buf, size, ...) keeps at most size - 1 characters.
Snprintf(size, str) ==
    IF Len(str) > size - 1 THEN SubSeq(str, 1, size - 1) ELSE str

\* The command echoed in place of the parameter.
VolumeMessage_Cmd(m) == "Volume set to " \o ToString(m.cmd)

\* "Volume set to %d", msg.param
VolumeMessage(m) == "Volume set to " \o ToString(m.param)

\* The switch of handle_client; now is what time(NULL) returns.
Respond(m, now) ==
    CASE m.cmd = CMD_GET_STATUS ->
           [status |-> 0,
            message |-> Snprintf(MESSAGE_SIZE, "I2S daemon running, device: " \o I2S_DEVICE)]
      [] m.cmd = CMD_SET_VOLUME ->
           [status |-> 0,
            message |-> Snprintf(MESSAGE_SIZE, VolumeMessage(m))]
      [] m.cmd = CMD_GET_STATS ->
           [status |-> 0,
            message |-> Snprintf(MESSAGE_SIZE, "Uptime: " \o ToString(now) \o " seconds")]
      [] m.cmd = CMD_SHUTDOWN ->
           [status |-> 0, message |-> Snprintf(MESSAGE_SIZE, "Shutting down daemon")]
      [] OTHER ->
           [status |-> -1, message |-> Snprintf(MESSAGE_SIZE, "Unknown command")]

\* The switch and write(client_fd, &resp, sizeof(resp)).  When the client has
\* closed its end the write raises SIGPIPE, which ends the process unless it
\* was started with SIGPIPE ignored.
Dispatch ==
    /\ dpc = "dispatch"
    /\ \E now \in Clock :
         /\ resp' = Respond(msg, now)
         /\ cl' = [cl EXCEPT ![Client].wrote = Append(@, Respond(msg, now))]
    /\ running' = IF msg.cmd = CMD_SHUTDOWN THEN 0 ELSE running
    /\ \/ dpc' = "close_client" /\ UNCHANGED fdopen
       \/ ~cl[Client].peer /\ dpc' = "killed" /\ fdopen' = {}
    /\ UNCHANGED <<i2s_fd, socket_fd, client_fd, msg, handlers, nclose, files,
                   backlog, drv>>

\* The connection kept for the client's next request.
CloseClient_KeepAlive ==
    /\ dpc = "close_client"
    /\ IF cl[Client].sent = "more"
       THEN /\ dpc' = "handle_client"
            /\ UNCHANGED <<client_fd, fdopen, nclose, cl>>
       ELSE /\ CloseAll({client_fd})
            /\ cl' = [cl EXCEPT ![Client] = Gone]
            /\ client_fd' = -1
            /\ dpc' = "loop"
    /\ UNCHANGED <<running, i2s_fd, socket_fd, msg, resp, handlers, files, backlog, drv>>

\* close(client_fd), the last line of handle_client.
CloseClient ==
    /\ dpc = "close_client"
    /\ CloseAll({client_fd})
    /\ cl' = [cl EXCEPT ![Client] = Gone]
    /\ client_fd' = -1
    /\ dpc' = "loop"
    /\ UNCHANGED <<running, i2s_fd, socket_fd, msg, resp, handlers, files, backlog, drv>>

\* cleanup(), and main returns.
cleanup ==
    /\ dpc = "cleanup"
    /\ CloseAll({f \in AllFds : (i2s_fd >= 0 /\ f = i2s_fd) \/ (socket_fd >= 0 /\ f = socket_fd)})
    /\ files' = files \ {SOCKET_PATH, PID_FILE}
    /\ dpc' = "exited"
    /\ UNCHANGED <<running, i2s_fd, socket_fd, client_fd, msg, resp, handlers,
                   backlog, cl, drv>>

\* SIGTERM or SIGINT.  With signal_handler installed it clears the run flag,
\* and a select() it interrupts returns EINTR, continue; before that the
\* signal ends the process.
signal_handler ==
    /\ dpc \notin {"exited", "killed"}
    /\ IF handlers
       THEN /\ running' = 0
            /\ dpc' = IF dpc = "select" THEN "loop" ELSE dpc
            /\ UNCHANGED fdopen
       ELSE /\ dpc' = "killed"
            /\ fdopen' = {}
            /\ UNCHANGED running
    /\ UNCHANGED <<i2s_fd, socket_fd, client_fd, msg, resp, handlers, nclose,
                   files, backlog, cl, drv>>

\* A client connects to SOCKET_PATH.
ClientConnect(c) ==
    /\ cl[c].st = "new"
    /\ socket_fd \in fdopen
    /\ cl' = [cl EXCEPT ![c].st = "queued"]
    /\ backlog' = Append(backlog, c)
    /\ UNCHANGED <<dpc, running, i2s_fd, socket_fd, client_fd, msg, resp, handlers,
                   fdopen, nclose, files, drv>>

\* A client sends a request, whole or in part; the rest of it; a second one.
ClientSend(c) ==
    /\ cl[c].st \in {"queued", "accepted"}
    /\ cl[c].peer
    /\ \/ /\ cl[c].sent = "none"
          /\ \E size \in {"short", "full"} : cl' = [cl EXCEPT ![c].sent = size]
       \/ /\ cl[c].sent = "short"
          /\ cl' = [cl EXCEPT ![c].sent = "full"]
       \/ /\ cl[c].sent = "full"
          /\ cl' = [cl EXCEPT ![c].sent = "more"]
    /\ UNCHANGED <<dpc, running, i2s_fd, socket_fd, client_fd, msg, resp, handlers,
                   fdopen, nclose, files, backlog, drv>>

\* A client closes its end.
ClientClose(c) ==
    /\ cl[c].st \in {"queued", "accepted"}
    /\ cl[c].peer
    /\ cl' = [cl EXCEPT ![c].peer = FALSE]
    /\ UNCHANGED <<dpc, running, i2s_fd, socket_fd, client_fd, msg, resp, handlers,
                   fdopen, nclose, files, backlog, drv>>

(* ------------------------------ the system ----------------------------- *)

\* The device and its sessions; the daemon is not started.
Init ==
    /\ DriverInit
    /\ workload \in Workloads
    /\ DaemonInit

Next ==
    \E p \in Sessions :
        \/ i2s_open(p)
        \/ i2s_release(p)
        \/ i2s_read(p)
        \/ i2s_write(p)
        \/ i2s_ioctl(p)
        \/ mutex_unlock(p)
        \/ Return(p)
        \/ i2s_close(p)
        \/ i2s_configure(p)
        \/ i2s_configure_depth(p)

Spec == Init /\ [][Next]_vars

\* The daemon and its clients; no session but the daemon's uses the device.
InitDaemon ==
    /\ DriverInit
    /\ workload = "control"
    /\ DaemonInit

NextDaemon ==
    \/ daemonize
    \/ write_pid_file
    \/ InstallHandlers
    \/ init_i2s_device
    \/ create_socket
    \/ LoopTest
    \/ Select
    \/ Accept
    \/ Read
    \/ Dispatch
    \/ CloseClient
    \/ cleanup
    \/ signal_handler
    \/ \E c \in Clients : ClientConnect(c) \/ ClientSend(c) \/ ClientClose(c)

SpecDaemon == InitDaemon /\ [][NextDaemon]_vars

\* The steps of the daemon process itself.
DaemonStep ==
    \/ daemonize
    \/ write_pid_file
    \/ InstallHandlers
    \/ init_i2s_device
    \/ create_socket
    \/ LoopTest
    \/ Select
    \/ Accept
    \/ Read
    \/ Dispatch
    \/ CloseClient
    \/ cleanup

\* The daemon process is scheduled: while it has a step to take, it takes
\* one.  Nothing is assumed of the clients or of signals.
SpecDaemonFair == SpecDaemon /\ WF_vars(DaemonStep)

(* =============================== claims ================================ *)

\* This step is the critical section of session p's call of fn.
Enters(p, fn) ==
    pc[p] \in {"idle", "lib"} /\ pc'[p] \in {"out", "oops"} /\ call'[p].fn = fn

\* This step is the critical section of session p's ioctl cmd.
EntersCmd(p, cmd) == Enters(p, "ioctl") /\ call'[p].cmd = cmd

\* C1: a read or a write that returns a byte count ran its critical section
\* while the device was running; one whose critical section runs while the
\* device is not running returns -EINVAL, each time, and leaves sample_rate,
\* bit_depth, is_running, the buffer and buffer_size as they were.
C1_RejectedUnlessRunning ==
    [][\A p \in Sessions :
         (Enters(p, "read") \/ Enters(p, "write")) =>
            /\ (pc'[p] = "out" /\ ret'[p] >= 0) => is_running = 1
            /\ is_running = 0 => (pc'[p] = "out" /\ ret'[p] = -EINVAL /\ dev' = dev)]_vars

\* A write that would have grown the buffer is rejected after the device was
\* started, written to and stopped again.
C1_Witness ==
    \E p \in Sessions :
        /\ pc[p] = "out" /\ call[p].fn = "write" /\ ret[p] = -EINVAL
        /\ call[p].count > buffer_size
        /\ lastRun = "stop" /\ maxWritten > 0

\* C2: with the device running, a read of len bytes that follows a successful
\* write of a payload of at least len bytes, nothing but reads having run on
\* the device in between, returns len bytes, the first len of the payload,
\* whether the write grew the buffer or not.
C2_ReadReturnsWrittenPrefix ==
    \A p \in Sessions :
        (/\ pc[p] = "out" /\ call[p].fn = "read" /\ ret[p] >= 0
         /\ lastWrite.fresh
         /\ call[p].count <= Len(lastWrite.data)) =>
            /\ ret[p] = call[p].count
            /\ uout[p] = SubSeq(lastWrite.data, 1, call[p].count)

\* A read of the whole of a payload whose write grew the buffer.
C2_Witness ==
    \E p \in Sessions :
        /\ pc[p] = "out" /\ call[p].fn = "read" /\ ret[p] = call[p].count
        /\ lastWrite.fresh /\ lastWrite.grew
        /\ call[p].count = Len(lastWrite.data)
        /\ uout[p] = lastWrite.data

\* C3, as stated: buffer_size is the larger of the initial size and the
\* length of the longest payload successfully written so far.
C3_CapacityIsLongestWritten ==
    buffer_size = Max(INIT_BUFFER_SIZE, maxWritten)

\* C3, amended: a successful write of a payload longer than buffer_size makes
\* buffer_size the payload's length and the buffer the payload, nothing of the
\* old contents left; a write of a payload not longer than buffer_size leaves
\* buffer_size alone; buffer_size never decreases; and buffer_size is the
\* larger of the initial size and the length of the longest payload a write
\* allocated a buffer for, whether or not its copy then succeeded.
C3_CapacityIsLongestAllocated ==
    /\ [][\A p \in Sessions :
            Enters(p, "write") =>
               /\ (pc'[p] = "out" /\ ret'[p] >= 0 /\ call'[p].count > buffer_size) =>
                     (buffer_size' = call'[p].count /\ buffer' = call'[p].data)
               /\ call'[p].count <= buffer_size => buffer_size' = buffer_size]_vars
    /\ [][buffer_size' >= buffer_size]_vars
    /\ [](buffer_size = Max(INIT_BUFFER_SIZE, maxGrown))

\* A write has grown the buffer and failed in its copy, and no payload that
\* long has been written: buffer_size is above the longest payload written.
C3_Witness ==
    \E p \in Sessions :
        /\ pc[p] = "out" /\ call[p].fn = "write" /\ ret[p] = -EFAULT
        /\ buffer_size = call[p].count
        /\ buffer_size > Max(INIT_BUFFER_SIZE, maxWritten)

\* C4: buffer_size is at least the length of the most recent successfully
\* written payload.
C4_CapacityCoversLastWrite ==
    buffer_size >= Len(lastWrite.data)

\* A payload shorter than the grown buffer has just been written.
C4_Witness ==
    \E p \in Sessions :
        /\ pc[p] = "out" /\ call[p].fn = "write" /\ ret[p] = call[p].count
        /\ lastWrite.fresh /\ ~lastWrite.grew
        /\ 0 < Len(lastWrite.data) /\ Len(lastWrite.data) < buffer_size
        /\ buffer_size > INIT_BUFFER_SIZE

\* C5, as stated: every call of START or STOP returns 0.
C5_StartStopAlwaysSucceed ==
    [][\A p \in Sessions :
         (CanCall(p) /\ (Ioctl(p, I2S_START) \/ Ioctl(p, I2S_STOP))) =>
            ret'[p] = 0]_vars

\* C5, amended: a START or STOP that gets the mutex returns 0 and leaves
\* is_running 1 or 0; it changes nothing when is_running had that value
\* already; and GET_STATUS gives the library running exactly when the last of
\* the STARTs and STOPs to have run its critical section was a START, stopped
\* when it was a STOP or there was none.
C5_StatusFollowsLastExecuted ==
    /\ [][\A p \in Sessions : \A cmd \in {I2S_START, I2S_STOP} :
            EntersCmd(p, cmd) =>
               /\ pc'[p] = "out" /\ ret'[p] = 0
               /\ is_running' = IF cmd = I2S_START THEN 1 ELSE 0
               /\ is_running' = is_running => dev' = dev]_vars
    /\ [](\A p \in Sessions :
            (pc[p] = "out" /\ call[p].cmd = I2S_GET_STATUS /\ ret[p] = 0) =>
               i2s_get_status(ret[p], uout[p][1]) =
                  IF lastRun = "start" THEN "I2S_STATUS_RUNNING"
                  ELSE "I2S_STATUS_STOPPED")

\* A session's START or STOP or other call has just been turned away at the
\* mutex, which another session holds for a GET_STATUS that reports running.
C5_Witness ==
    \E p, q \in Sessions :
        /\ pc[p] = "out" /\ call[p].cmd = I2S_GET_STATUS /\ ret[p] = 0
        /\ uout[p] = <<1>> /\ lastRun = "start"
        /\ pc[q] = "ret" /\ ret[q] = -ERESTARTSYS

\* C6: the sessions inside a critical section are at most one, the holder of
\* the mutex; and a step that changes sample_rate, bit_depth, is_running, the
\* buffer or buffer_size, or hands a session a copy of one of them, is a step
\* of the session that takes the mutex in it and holds it afterwards.
C6_FieldsOnlyUnderLock ==
    /\ [](/\ Cardinality({p \in Sessions : pc[p] \in {"out", "oops"}}) <= 1
          /\ \A p \in Sessions : pc[p] \in {"out", "oops"} <=> lock = p)
    /\ [][(\/ dev' # dev
           \/ \E p \in Sessions : uout'[p] # uout[p] /\ uout'[p] # <<>>) =>
              /\ lock = 0 /\ lock' \in Sessions
              /\ pc'[lock'] \in {"out", "oops"}
              /\ \A q \in Sessions \ {lock'} : uout'[q] = uout[q]]_vars

\* One session is in a write's critical section with the buffer changed, the
\* other was turned away at the mutex.
C6_Witness ==
    \E p, q \in Sessions :
        /\ pc[p] = "out" /\ lock = p /\ call[p].fn = "write" /\ ret[p] > 0
        /\ pc[q] = "ret" /\ ret[q] = -ERESTARTSYS

\* C7: sample_rate is the value of the last SET_SAMPLE_RATE to have run its
\* critical section, the default before the first; a GET_SAMPLE_RATE that
\* succeeds returns that value, which is the default or a value a caller
\* passed, never anything else.
C7_LastSetterWins ==
    /\ sample_rate = lastSet.value
    /\ lastSet.value \in {DEFAULT_SAMPLE_RATE} \cup RateValues
    /\ \A p \in Sessions :
         (pc[p] = "out" /\ call[p].cmd = I2S_GET_SAMPLE_RATE /\ ret[p] = 0) =>
            uout[p] = <<lastSet.value>>

\* Two sessions have set different rates one after the other, and a
\* GET_SAMPLE_RATE by the first of them returns the second's.
C7_Witness ==
    \E p \in Sessions :
        /\ pc[p] = "out" /\ call[p].cmd = I2S_GET_SAMPLE_RATE /\ ret[p] = 0
        /\ prevSet.by = p /\ lastSet.by \notin {0, p}
        /\ prevSet.value # lastSet.value
        /\ uout[p] = <<lastSet.value>>

C9_UnknownNeverLocks ==
    \A p \in Sessions : lock = p => call[p].cmd \notin UnknownCmds

\* C9, amended: a command that is not one of the seven changes nothing of the
\* device.  Under a foreign magic it returns -ENOTTY without touching the
\* mutex.  Under the driver's magic it takes the mutex like any other command
\* and returns -ENOTTY from the default case, or -ERESTARTSYS when it is
\* interrupted waiting for the mutex.
C9_UnknownCommand ==
    [][\A p \in Sessions : \A cmd \in UnknownCmds :
         (CanCall(p) /\ Ioctl(p, cmd)) =>
            /\ dev' = dev
            /\ IF cmd.type # I2S_IOC_MAGIC
               THEN pc'[p] = "ret" /\ ret'[p] = -ENOTTY /\ lock' = lock
               ELSE IF lock = 0
               THEN pc'[p] = "out" /\ ret'[p] = -ENOTTY /\ lock' = p
               ELSE pc'[p] = "ret" /\ ret'[p] = -ERESTARTSYS /\ lock' = lock]_vars

\* A session holds the mutex for a command of the driver's magic that the
\* switch does not know, while another returns -ENOTTY for a foreign magic.
C9_Witness ==
    \E p, q \in Sessions :
        /\ pc[p] = "out" /\ lock = p /\ ret[p] = -ENOTTY
        /\ call[p].cmd \in UnknownCmds
        /\ pc[q] = "ret" /\ ret[q] = -ENOTTY

\* The string sub occurs in the string str.
Contains(str, sub) ==
    \E i \in 1..(Len(str) - Len(sub) + 1) : SubSeq(str, i, i + Len(sub) - 1) = sub

\* C10: when the daemon has read a request of full size and is about to close
\* the connection, it has written one response on it and no more: status 0
\* with the device path in the message for command 1, status 0 with the
\* request's parameter in the message for command 2, status 0 for commands 3
\* and 4, status -1 and "Unknown command" for any other command; before the
\* dispatch it has written none, and on no connection does it write two.
C10_OneResponsePerRequest ==
    /\ \A c \in Clients : Len(cl[c].wrote) <= 1
    /\ dpc = "dispatch" => cl[Client].wrote = <<>>
    /\ dpc = "close_client" =>
         /\ cl[Client].wrote = <<resp>>
         /\ resp.status = IF msg.cmd \in {1, 2, 3, 4} THEN 0 ELSE -1
         /\ msg.cmd = 1 => Contains(resp.message, "/dev/i2s0")
         /\ msg.cmd = 2 => Contains(resp.message, ToString(msg.param))
         /\ msg.cmd \notin {1, 2, 3, 4} => resp.message = "Unknown command"

\* The response to SET_VOLUME with volume -75 has been written, with another
\* client waiting to be accepted.
C10_Witness ==
    /\ dpc = "close_client"
    /\ msg = [cmd |-> 2, param |-> -75]
    /\ cl[Client].wrote = <<[status |-> 0, message |-> "Volume set to -75"]>>
    /\ backlog # <<>>

\* C11: a read that yields less than a whole request, a part of one or
\* nothing because the client has closed its end, is followed by the close of
\* the connection with nothing written on it: no response is made, the run
\* flag keeps its value even when the part that arrived names SHUTDOWN, and
\* the daemon is back at the test of its loop; and only a read of a whole
\* request goes on to the dispatch.
C11_ShortReadDropped ==
    [][(dpc = "handle_client" /\ dpc' # dpc) =>
         IF cl[Client].sent \in {"full", "more"}
         THEN dpc' = "dispatch"
         ELSE /\ dpc' = "loop"
              /\ cl[Client].wrote = <<>> /\ cl'[Client].wrote = <<>>
              /\ cl'[Client].st = "closed"
              /\ client_fd \notin fdopen'
              /\ nclose'[client_fd] = nclose[client_fd] + 1
              /\ running' = running
              /\ resp' = resp]_vars

\* A part of a SHUTDOWN request has been read and its connection closed; the
\* run flag is still set and no response has ever been made.
C11_Witness ==
    /\ dpc = "loop"
    /\ msg.cmd = CMD_SHUTDOWN
    /\ running = 1
    /\ resp = NoResp
    /\ \E c \in Clients : cl[c] = Gone /\ nclose[ClientFd(c)] = 1

\* The acknowledgement of SHUTDOWN; resp holds it from the dispatch of a
\* SHUTDOWN on.
ShutdownAck == [status |-> 0, message |-> "Shutting down daemon"]

\* C12, as stated: once a SHUTDOWN has been dispatched the run flag is clear
\* and the daemon is closing that connection, with the acknowledgement written
\* on it, or at the test of its loop, or in cleanup, or has exited, and
\* nowhere else: it accepts nothing more; up to cleanup the listening socket
\* and the device are open and the socket path and the PID file exist; and
\* when the process has ended both descriptors have been closed and both
\* files removed.
C12_ShutdownThenCleanup ==
    resp = ShutdownAck =>
        /\ running = 0
        /\ dpc \in {"close_client", "loop", "cleanup", "exited"}
        /\ dpc = "close_client" => cl[Client].wrote = <<ShutdownAck>>
        /\ dpc \in {"close_client", "loop", "cleanup"} =>
              /\ {i2s_fd, socket_fd} \subseteq fdopen
              /\ files = {SOCKET_PATH, PID_FILE}
        /\ dpc \notin {"close_client", "loop", "cleanup"} =>
              /\ fdopen = {}
              /\ nclose[DevFd] = 1 /\ nclose[SockFd] = 1
              /\ files = {}

\* The client of a SHUTDOWN closed its end before the acknowledgement was
\* written, and the write has ended the process: cleanup has not run, the
\* socket path and the PID file are still there.
C12_Witness ==
    /\ resp = ShutdownAck
    /\ dpc = "killed"
    /\ nclose[DevFd] = 0 /\ nclose[SockFd] = 0
    /\ files = {SOCKET_PATH, PID_FILE}

\* The process has ended: main has returned, or a signal has ended it.
Terminated == dpc \in {"exited", "killed"}

\* C13, as stated: with the daemon process scheduled fairly, whenever the run
\* flag is clear the process eventually ends, whatever the clients do.
C13_SignalThenTerminated ==
    (running = 0) ~> Terminated

\* The run flag has been cleared by a signal while the daemon is in the read
\* of a connection whose client has sent nothing and keeps its end open.
C13_Witness ==
    /\ running = 0
    /\ resp # ShutdownAck
    /\ dpc = "handle_client"
    /\ cl[Client].sent = "none" /\ cl[Client].peer

\* The connections the daemon has accepted and not closed.
Accepted == {c \in Clients : cl[c].st = "accepted"}

\* C14: while it lives the daemon has at most one connection accepted and
\* not closed, the one it is handling, and accepts only when it has none; it
\* reads from a
\* connection only straight after accepting it, and after a read of a whole
\* request it dispatches, writes and closes, so that it reads at most one
\* request from a connection; it writes only on a connection it has written
\* nothing on; and a connection it has closed stays closed, a second request
\* sent on it unanswered.
C14_OneExchangePerConnection ==
    /\ [](/\ Cardinality(Accepted) <= 1
          /\ dpc # "killed" =>
                /\ Accepted = IF dpc \in {"handle_client", "dispatch", "close_client"}
                              THEN {Client} ELSE {}
                /\ \A c \in Clients : ClientFd(c) \in fdopen <=> c \in Accepted)
    /\ [][\A c \in Clients :
            /\ (c \notin Accepted /\ cl'[c].st = "accepted") =>
                  (Accepted = {} /\ dpc = "accept" /\ dpc' = "handle_client")
            /\ (cl'[c].wrote # cl[c].wrote /\ cl'[c].wrote # <<>>) =>
                  (cl[c].wrote = <<>> /\ Len(cl'[c].wrote) = 1 /\ c \in Accepted)
            /\ cl[c].st = "closed" => cl'[c] = cl[c]]_vars
    /\ [][/\ (dpc # "handle_client" /\ dpc' = "handle_client") => dpc = "accept"
          /\ (dpc = "dispatch" /\ dpc' # dpc) => dpc' \in {"close_client", "killed"}
          /\ (dpc = "close_client" /\ dpc' # dpc) =>
                (dpc' = "loop" /\ cl'[Client].st = "closed")]_vars

\* The daemon has answered the first request of a client that has sent a
\* second one on the same connection, and is about to close the connection;
\* another client is waiting to be accepted.
C14_Witness ==
    /\ dpc = "close_client"
    /\ cl[Client].sent = "more"
    /\ Len(cl[Client].wrote) = 1
    /\ backlog # <<>>

\* The daemon is in event_loop.
InLoop == dpc \in {"loop", "select", "accept", "handle_client", "dispatch", "close_client"}

\* C15, as stated: the daemon leaves its loop for cleanup only with the run
\* flag clear.
C15_LoopEndsOnlyOnFlag ==
    [][(InLoop /\ dpc' = "cleanup") => running = 0]_vars

\* C15, amended: no failure changes the run flag, which only the signal
\* handler and the dispatch of SHUTDOWN clear.  After an accept that fails
\* the daemon is back at the test of its loop with the connection still
\* waiting and nothing closed.  A select that fails with an error other than
\* EINTR ends the loop whatever the run flag is: the daemon goes to cleanup;
\* and the loop ends in no other way but by its test finding the flag clear.
C15_AcceptFaultContinues ==
    /\ [][running' # running =>
            /\ running' = 0
            /\ handlers
            /\ \/ dpc = "dispatch" /\ msg.cmd = CMD_SHUTDOWN
               \/ dpc' = dpc
               \/ dpc = "select" /\ dpc' = "loop"]_vars
    /\ [][(dpc = "accept" /\ dpc' # dpc) =>
            \/ dpc' = "handle_client" /\ client_fd' \in fdopen'
            \/ /\ dpc' = "loop"
               /\ backlog' = backlog /\ fdopen' = fdopen /\ cl' = cl
               /\ nclose' = nclose]_vars
    /\ [][(InLoop /\ dpc' = "cleanup") =>
            \/ dpc = "loop" /\ running = 0
            \/ dpc = "select" /\ running' = running]_vars

\* A select has failed with the run flag set: the daemon is on its way out,
\* the listening socket still open and a client waiting on it.
C15_Witness ==
    /\ dpc = "cleanup"
    /\ running = 1
    /\ socket_fd \in fdopen
    /\ backlog # <<>>

\* Session p's system call returns in this step.
Returns(p) == pc[p] \in {"out", "ret"} /\ pc'[p] \notin {"out", "ret"}

\* C16: a step in which a call fails leaves sample_rate and bit_depth as they
\* were.  i2s_configure issues SET_SAMPLE_RATE and, only when that has
\* succeeded, SET_BIT_DEPTH with the values of its config; when either fails
\* it returns without another call, so that nothing it stored is taken back:
\* when its SET_BIT_DEPTH has failed and no other session has set the rate
\* since, sample_rate is the rate of its config.
C16_NoRollback ==
    /\ [][\A p \in Sessions :
            (pc[p] \in {"idle", "lib"} /\ pc'[p] \in {"out", "ret"} /\ ret'[p] < 0) =>
               (sample_rate' = sample_rate /\ bit_depth' = bit_depth)]_vars
    /\ [][\A p \in Sessions :
            (Returns(p) /\ configuring[p].at # "no") =>
               /\ dev' = dev
               /\ IF configuring[p].at = "rate" /\ ret[p] >= 0
                  THEN pc'[p] = "lib" /\ configuring'[p].at = "between"
                  ELSE pc'[p] = "idle" /\ configuring'[p] = NoConfigure]_vars
    /\ [][\A p \in Sessions :
            (pc[p] = "lib" /\ pc'[p] = "out") =>
               /\ call'[p].cmd = I2S_SET_BIT_DEPTH
               /\ call'[p].arg = configuring[p].config.bit_depth
               /\ ret'[p] = 0 => bit_depth' = configuring[p].config.bit_depth]_vars
    /\ [](\A p \in Sessions :
            (/\ configuring[p].at = "depth" /\ pc[p] \in {"out", "ret"} /\ ret[p] < 0
             /\ lastSet.by = p) =>
               sample_rate = configuring[p].config.sample_rate)

\* An i2s_configure has set the rate to 48000 and its SET_BIT_DEPTH has
\* failed: the device has the new rate and the bit depth it started with.
C16_Witness ==
    \E p \in Sessions :
        /\ configuring[p].at = "depth" /\ pc[p] \in {"out", "ret"} /\ ret[p] < 0
        /\ configuring[p].config = [sample_rate |-> 48000, bit_depth |-> 24]
        /\ sample_rate = 48000
        /\ bit_depth = DEFAULT_BIT_DEPTH

\* C17, as stated: a read whose critical section runs while the device is
\* running, and whose copy to the caller does not fault on the caller's
\* buffer, returns min(count, buffer_size) and hands the caller that many
\* bytes, whatever the length of the last payload written; and it leaves
\* sample_rate, bit_depth, is_running, the buffer and buffer_size as they
\* were.
C17_ReadReturnsMin ==
    [][\A p \in Sessions :
         (Enters(p, "read") /\ is_running = 1) =>
            /\ pc'[p] = "out"
            /\ ret'[p] # -EFAULT =>
                  /\ ret'[p] = Min(call'[p].count, buffer_size)
                  /\ Len(uout'[p]) = ret'[p]
            /\ dev' = dev]_vars

\* A read on the running device has died in its critical section: the write
\* before it failed to allocate and left the device without a buffer.
C17_Witness ==
    \E p \in Sessions :
        /\ pc[p] = "oops" /\ call[p].fn = "read" /\ lock = p
        /\ is_running = 1
        /\ buffer_ptr = "NULL" /\ buffer_size >= INIT_BUFFER_SIZE

\* C18: an open changes nothing of the device, nor do the GET commands that
\* libi2s i2s_open issues after it.  There is one sample_rate, one bit_depth
\* and one is_running for all sessions: a SET or START or STOP that succeeds
\* in any session stores into them, and a GET that succeeds in any session
\* returns what they hold at that moment, whichever session stored it and
\* whenever either session was opened.
C18_OneSharedDevice ==
    /\ [][\A p \in Sessions :
            (filp[p] = "closed" /\ filp'[p] = "open") =>
               (dev' = dev /\ lock' = lock /\ hist' = hist)]_vars
    /\ [][\A p \in Sessions :
            /\ EntersCmd(p, I2S_GET_SAMPLE_RATE) =>
                  (dev' = dev /\ (ret'[p] = 0 => uout'[p] = <<sample_rate>>))
            /\ EntersCmd(p, I2S_GET_BIT_DEPTH) =>
                  (dev' = dev /\ (ret'[p] = 0 => uout'[p] = <<bit_depth>>))
            /\ EntersCmd(p, I2S_GET_STATUS) =>
                  (dev' = dev /\ (ret'[p] = 0 => uout'[p] = <<is_running>>))
            /\ (EntersCmd(p, I2S_SET_SAMPLE_RATE) /\ ret'[p] = 0) =>
                  sample_rate' = call'[p].arg
            /\ (EntersCmd(p, I2S_SET_BIT_DEPTH) /\ ret'[p] = 0) =>
                  bit_depth' = call'[p].arg
            /\ EntersCmd(p, I2S_START) => is_running' = 1
            /\ EntersCmd(p, I2S_STOP) => is_running' = 0]_vars

\* A session that is closed again set the rate to 48000, and a GET through
\* another session returns 48000.
C18_Witness ==
    \E p, q \in Sessions :
        /\ p # q
        /\ lastSet = [value |-> 48000, by |-> p]
        /\ filp[p] = "closed"
        /\ pc[q] = "out" /\ call[q].cmd = I2S_GET_SAMPLE_RATE /\ ret[q] = 0
        /\ uout[q] = <<48000>>

\* C19: when i2s_driver_init has returned 0, sample_rate is 44100, bit_depth
\* is 16, is_running is 0, buffer_size is the initial size (INIT_BUFFER_SIZE,
\* the driver's 4096) with a buffer of that size allocated, and the mutex is
\* free.  As long as no START has executed, is_running is 0 and buffer_size
\* the initial size, and every read and every write that gets the mutex
\* returns -EINVAL and leaves the device as it was.
C19_InitialState ==
    /\ sample_rate = 44100 /\ bit_depth = 16 /\ is_running = 0
    /\ buffer_size = INIT_BUFFER_SIZE /\ Len(buffer) = INIT_BUFFER_SIZE
    /\ buffer_ptr = "alloc" /\ lock = 0
    /\ [](lastRun = "none" => (is_running = 0 /\ buffer_size = INIT_BUFFER_SIZE))
    /\ [][\A p \in Sessions :
            ((Enters(p, "read") \/ Enters(p, "write")) /\ lastRun = "none") =>
               (pc'[p] = "out" /\ ret'[p] = -EINVAL /\ dev' = dev)]_vars

\* The first call on the device after its initialisation is a write of a
\* payload, and it has been rejected.
C19_Witness ==
    \E p \in Sessions :
        /\ pc[p] = "out" /\ call[p].fn = "write" /\ call[p].count > 0
        /\ ret[p] = -EINVAL
        /\ lastRun = "none" /\ lastSet = NoSet /\ maxGrown = 0
        /\ sample_rate = 44100 /\ bit_depth = 16 /\ is_running = 0
        /\ buffer_size = INIT_BUFFER_SIZE
        /\ \A q \in Sessions \ {p} : filp[q] = "closed"

\* The buffer and its size.
buf == <<buffer, buffer_ptr, buffer_size>>

\* C20: a SET_SAMPLE_RATE that gets the mutex and reads its argument returns
\* 0 and stores the argument, whatever it is, in sample_rate, leaving
\* bit_depth, is_running, the buffer and buffer_size as they were; the same
\* for SET_BIT_DEPTH and bit_depth.  sample_rate and bit_depth change in no
\* other step, so that the next GET returns the value set: a GET returns the
\* field it is named after and changes nothing.  START and STOP change
\* is_running and nothing else.
C20_SetStoresGetReturns ==
    /\ [][\A p \in Sessions :
            /\ EntersCmd(p, I2S_SET_SAMPLE_RATE) =>
                  /\ ret'[p] \in {0, -EFAULT}
                  /\ ret'[p] = 0 => sample_rate' = call'[p].arg
                  /\ ret'[p] # 0 => sample_rate' = sample_rate
                  /\ bit_depth' = bit_depth /\ is_running' = is_running /\ buf' = buf
            /\ EntersCmd(p, I2S_SET_BIT_DEPTH) =>
                  /\ ret'[p] \in {0, -EFAULT}
                  /\ ret'[p] = 0 => bit_depth' = call'[p].arg
                  /\ ret'[p] # 0 => bit_depth' = bit_depth
                  /\ sample_rate' = sample_rate /\ is_running' = is_running /\ buf' = buf
            /\ \A cmd \in {I2S_GET_SAMPLE_RATE, I2S_GET_BIT_DEPTH, I2S_GET_STATUS} :
                  EntersCmd(p, cmd) =>
                     /\ dev' = dev
                     /\ ret'[p] = 0 =>
                           uout'[p] = <<CASE cmd = I2S_GET_SAMPLE_RATE -> sample_rate
                                          [] cmd = I2S_GET_BIT_DEPTH -> bit_depth
                                          [] OTHER -> is_running>>
            /\ \A cmd \in {I2S_START, I2S_STOP} :
                  EntersCmd(p, cmd) =>
                     (sample_rate' = sample_rate /\ bit_depth' = bit_depth /\ buf' = buf)]_vars
    /\ [][/\ sample_rate' # sample_rate =>
                \E p \in Sessions : EntersCmd(p, I2S_SET_SAMPLE_RATE) /\ ret'[p] = 0
          /\ bit_depth' # bit_depth =>
                \E p \in Sessions : EntersCmd(p, I2S_SET_BIT_DEPTH) /\ ret'[p] = 0]_vars

\* The rate has been set to -1 and the bit depth to 0 on the running device,
\* and a GET_SAMPLE_RATE returns -1.
C20_Witness ==
    \E p \in Sessions :
        /\ pc[p] = "out" /\ call[p].cmd = I2S_GET_SAMPLE_RATE /\ ret[p] = 0
        /\ uout[p] = <<-1>>
        /\ sample_rate = -1 /\ bit_depth = 0 /\ is_running = 1
        /\ buffer_size = INIT_BUFFER_SIZE

\* C21, as stated: the mutex is held only by a session whose call is under
\* way and on its way to the unlock, so that it is free whenever no call is;
\* every critical section ends at the label out, whatever it returns; and a
\* call interrupted in its wait for the mutex returns -ERESTARTSYS with the
\* device and the mutex as they were.
C21_LockAlwaysReleased ==
    /\ [](\A p \in Sessions : lock = p => pc[p] = "out")
    /\ []((\A p \in Sessions : pc[p] # "out") => lock = 0)
    /\ [][\A p \in Sessions :
            /\ (pc[p] \in {"idle", "lib"} /\ lock' = p) => pc'[p] = "out"
            /\ (pc[p] = "out" /\ pc'[p] # "out") => (lock = p /\ lock' = 0)
            /\ (pc[p] \in {"idle", "lib"} /\ pc'[p] = "ret" /\ ret'[p] = -ERESTARTSYS) =>
                  (lock # 0 /\ lock' = lock /\ dev' = dev)]_vars

\* A write on the device whose buffer a failed allocation took away has died
\* in its critical section; the mutex is held by the dead call, and another
\* session's call has been turned away waiting for it.
C21_Witness ==
    \E p, q \in Sessions :
        /\ pc[p] = "oops" /\ call[p].fn = "write" /\ lock = p
        /\ pc[q] = "ret" /\ ret[q] = -ERESTARTSYS

\* C22, as stated: a write that returns -EFAULT or -ENOMEM leaves
\* sample_rate, bit_depth, is_running, the buffer, its cells and buffer_size
\* as they were before the call.
C22_FailedWriteChangesNothing ==
    [][\A p \in Sessions :
         (Enters(p, "write") /\ pc'[p] = "out" /\ ret'[p] \in {-EFAULT, -ENOMEM}) =>
            dev' = dev]_vars

\* A write has returned -ENOMEM: the payload that was in the buffer is gone,
\* the device has no buffer, and buffer_size is what it was.
C22_Witness ==
    \E p \in Sessions :
        /\ pc[p] = "out" /\ call[p].fn = "write" /\ ret[p] = -ENOMEM
        /\ buffer_ptr = "NULL" /\ buffer = <<>>
        /\ maxWritten > 0 /\ buffer_size >= maxWritten

\* C23, as stated: dev->buffer always points to an allocation of buffer_size
\* bytes, and no read or write ever copies through a pointer that does not.
C23_BufferAlwaysLive ==
    /\ buffer_ptr = "alloc"
    /\ Len(buffer) = buffer_size
    /\ \A p \in Sessions : pc[p] # "oops"

\* After a write whose growth failed to allocate, with no call under way: the
\* running device has no buffer and a buffer_size above zero.
C23_Witness ==
    /\ buffer_ptr = "NULL"
    /\ buffer_size > 0
    /\ is_running = 1
    /\ lock = 0
    /\ \A p \in Sessions : pc[p] = "idle"

\* C24, as stated: no byte a successful read hands its caller is one that the
\* allocator left in the buffer and no write has stored.
C24_ReadReturnsOnlyWritten ==
    \A p \in Sessions :
        (pc[p] = "out" /\ call[p].fn = "read" /\ ret[p] >= 0) =>
            \A i \in 1..Len(uout[p]) : uout[p][i] # Junk

\* A read on the started device, before any write has stored anything, has
\* returned what the allocation of i2s_driver_init held.
C24_Witness ==
    \E p \in Sessions :
        /\ pc[p] = "out" /\ call[p].fn = "read" /\ ret[p] = INIT_BUFFER_SIZE
        /\ uout[p] = [i \in 1..INIT_BUFFER_SIZE |-> Junk]
        /\ maxWritten = 0 /\ maxGrown = 0

C26_ClosedOnceAndRemoved ==
    dpc = "exited" =>
        /\ fdopen = {}
        /\ \A f \in AllFds : nclose[f] <= 1
        /\ i2s_fd >= 0 => nclose[i2s_fd] = 1
        /\ socket_fd >= 0 => nclose[socket_fd] = 1
        /\ files = {}

\* main has returned after a failure in create_socket, and close has been
\* called twice on the socket and once on the device.
C26_Witness ==
    /\ dpc = "exited" /\ handlers
    /\ i2s_fd = DevFd /\ nclose[DevFd] = 1
    /\ socket_fd = SockFd /\ nclose[SockFd] = 2
    /\ files = {}

====
